---- MODULE Spec2Model ----
(***************************************************************************)
(* Building synthesis of arnis: src/element_processing/buildings.rs.       *)
(*                                                                         *)
(* generate_buildings turns one tagged footprint (a way) into set_block    *)
(* calls on the world editor; generate_building_from_relation calls it for *)
(* the outer members of a relation.  The model keeps the editor as the     *)
(* ordered log of set_block calls, every call tagged with the source line  *)
(* that issues it, and a log of the generate_buildings invocations.        *)
(*                                                                         *)
(* Strings are sequences of one-character strings, so that the parsers of  *)
(* the tag values are computed character by character.                     *)
(* Reals (scale, the height tag) are exact fractions <<num, den>>, den>0.  *)
(***************************************************************************)
EXTENDS Integers, Sequences, FiniteSets, TLC

VARIABLES
    editor,   \* WorldEditor: the set_block calls issued so far, in order
    calls,    \* calls[k]: the generate_buildings invocations made for handled[k]
    queue,    \* the elements the caller still has to hand over
    handled,  \* the elements the caller has handed over, in order
    ground,   \* &Ground
    args,     \* &Args: scale, winter
    rng,      \* what rand::thread_rng() yields: three variation indices
    fill      \* what flood_fill_area returns within its time budget: a Vec of columns

vars == <<editor, calls, queue, handled, ground, args, rng, fill>>

(***************************************************************************)
(* Rust values                                                             *)
(***************************************************************************)
\* Option<T>
None == <<>>
Some(v) == <<v>>
IsSome(o) == o # None
Unwrap(o) == o[1]

\* i32 range, used by the float-to-int cast (which saturates)
I32Max == 2147483647
I32Min == -I32Max - 1

\* Integer division and remainder truncate toward zero in Rust.
Trunc(a, b) == IF a >= 0 THEN a \div b ELSE -((-a) \div b)
Rem(a, b) == a - b * Trunc(a, b)

\* `(f) as i32` for the fraction n/d, d > 0: truncates toward zero, saturates.
AsI32(n, d) ==
    LET t == Trunc(n, d)
    IN  IF t > I32Max THEN I32Max ELSE IF t < I32Min THEN I32Min ELSE t

\* i32::max
Max(a, b) == IF a >= b THEN a ELSE b

\* Vec concatenation of a sequence of sequences
RECURSIVE Cat(_)
Cat(ss) == IF ss = <<>> THEN <<>> ELSE Head(ss) \o Cat(Tail(ss))

\* HashMap<String, String>::get
Get(tags, k) == IF k \in DOMAIN tags THEN Some(tags[k]) ELSE None

(***************************************************************************)
(* str::parse::<i32>: an optional sign, then one or more ASCII digits.     *)
(***************************************************************************)
Digits == <<"0", "1", "2", "3", "4", "5", "6", "7", "8", "9">>
IsDigit(c) == \E i \in 1..10 : Digits[i] = c
DigitVal(c) == (CHOOSE i \in 1..10 : Digits[i] = c) - 1

AllDigits(s) == \A i \in 1..Len(s) : IsDigit(s[i])

RECURSIVE DecVal(_)
DecVal(s) ==
    IF s = <<>> THEN 0
    ELSE 10 * DecVal(SubSeq(s, 1, Len(s) - 1)) + DigitVal(s[Len(s)])

ParseI32(s) ==
    LET signed == s # <<>> /\ s[1] \in {"-", "+"}
        body   == IF signed THEN Tail(s) ELSE s
        v      == IF signed /\ s[1] = "-" THEN -DecVal(body) ELSE DecVal(body)
    IN  IF body = <<>> \/ ~AllDigits(body) THEN None
        ELSE IF v > I32Max \/ v < I32Min THEN None
        ELSE Some(v)

(***************************************************************************)
(* str::parse::<f64> on decimal literals: an optional sign, digits with an *)
(* optional fraction part, at least one digit in all.  The result is the   *)
(* fraction <<num, den>>.  (Exponents and inf/nan are outside the alphabet *)
(* of the strings used here.)                                              *)
(***************************************************************************)
RECURSIVE Pow10(_)
Pow10(k) == IF k = 0 THEN 1 ELSE 10 * Pow10(k - 1)

DotAt(s) == IF \E i \in 1..Len(s) : s[i] = "."
            THEN CHOOSE i \in 1..Len(s) : s[i] = "." /\ \A j \in 1..(i - 1) : s[j] # "."
            ELSE 0

ParseF64(s) ==
    LET signed == s # <<>> /\ s[1] \in {"-", "+"}
        body   == IF signed THEN Tail(s) ELSE s
        dot    == DotAt(body)
        ip     == IF dot = 0 THEN body ELSE SubSeq(body, 1, dot - 1)
        fp     == IF dot = 0 THEN <<>> ELSE SubSeq(body, dot + 1, Len(body))
        mag    == DecVal(ip \o fp)
    IN  IF ~AllDigits(ip) \/ ~AllDigits(fp) \/ ip \o fp = <<>> THEN None
        ELSE Some(<<IF signed /\ s[1] = "-" THEN -mag ELSE mag, Pow10(Len(fp))>>)

\* str::trim_end_matches("m")
RECURSIVE TrimEndMatchesM(_)
TrimEndMatchesM(s) ==
    IF s # <<>> /\ s[Len(s)] = "m" THEN TrimEndMatchesM(SubSeq(s, 1, Len(s) - 1)) ELSE s

\* str::trim
RECURSIVE TrimStart(_)
TrimStart(s) == IF s # <<>> /\ s[1] = " " THEN TrimStart(Tail(s)) ELSE s
RECURSIVE TrimEnd(_)
TrimEnd(s) == IF s # <<>> /\ s[Len(s)] = " " THEN TrimEnd(SubSeq(s, 1, Len(s) - 1)) ELSE s
Trim(s) == TrimEnd(TrimStart(s))

(***************************************************************************)
(* The string literals the code compares tag values with.                  *)
(***************************************************************************)
Str_shelter == <<"s", "h", "e", "l", "t", "e", "r">>
Str_garage == <<"g", "a", "r", "a", "g", "e">>
Str_shed == <<"s", "h", "e", "d">>
Str_parking == <<"p", "a", "r", "k", "i", "n", "g">>
Str_multi_storey == <<"m", "u", "l", "t", "i", "-", "s", "t", "o", "r", "e", "y">>
Str_roof == <<"r", "o", "o", "f">>
Str_apartments == <<"a", "p", "a", "r", "t", "m", "e", "n", "t", "s">>
Str_hospital == <<"h", "o", "s", "p", "i", "t", "a", "l">>
Str_bridge == <<"b", "r", "i", "d", "g", "e">>
Str_yes == <<"y", "e", "s">>
Str_house == <<"h", "o", "u", "s", "e">>
Str_detached == <<"d", "e", "t", "a", "c", "h", "e", "d">>
Str_static_caravan == <<"s", "t", "a", "t", "i", "c", "_", "c", "a", "r", "a", "v", "a", "n">>
Str_semidetached_house == <<"s", "e", "m", "i", "d", "e", "t", "a", "c", "h", "e", "d", "_", "h", "o", "u", "s", "e">>
Str_bungalow == <<"b", "u", "n", "g", "a", "l", "o", "w">>
Str_manor == <<"m", "a", "n", "o", "r">>
Str_villa == <<"v", "i", "l", "l", "a">>

(***************************************************************************)
(* Collaborators whose code is outside src/: the line rasterizer, the      *)
(* ground oracle, the block catalogs.  (The result of flood_fill_area is   *)
(* the variable fill: a Vec of columns.)                                   *)
(***************************************************************************)
Abs(a) == IF a >= 0 THEN a ELSE -a
Sign(a, b) == IF a < b THEN 1 ELSE -1

\* bresenham_line(x1, y1, z1, x2, y2, z2): every cell from the first point to
\* the second, both included, stepping along the axis of the largest delta.
bresenham_line(x1, y1, z1, x2, y2, z2) ==
    LET dx == Abs(x2 - x1)
        dy == Abs(y2 - y1)
        dz == Abs(z2 - z1)
        xs == Sign(x1, x2)
        ys == Sign(y1, y2)
        zs == Sign(z1, z2)
        Err(p, d, drive) == (IF p >= 0 THEN p - 2 * drive ELSE p) + 2 * d
        Step(c, p, s) == IF p >= 0 THEN c + s ELSE c
        RECURSIVE WalkX(_, _, _, _, _)
        WalkX(x, y, z, p1, p2) ==
            IF x = x2 THEN <<>>
            ELSE <<<<x, y, z>>>> \o
                 WalkX(x + xs, Step(y, p1, ys), Step(z, p2, zs), Err(p1, dy, dx), Err(p2, dz, dx))
        RECURSIVE WalkY(_, _, _, _, _)
        WalkY(x, y, z, p1, p2) ==
            IF y = y2 THEN <<>>
            ELSE <<<<x, y, z>>>> \o
                 WalkY(Step(x, p1, xs), y + ys, Step(z, p2, zs), Err(p1, dx, dy), Err(p2, dz, dy))
        RECURSIVE WalkZ(_, _, _, _, _)
        WalkZ(x, y, z, p1, p2) ==
            IF z = z2 THEN <<>>
            ELSE <<<<x, y, z>>>> \o
                 WalkZ(Step(x, p2, xs), Step(y, p1, ys), z + zs, Err(p1, dy, dz), Err(p2, dx, dz))
    IN  (IF dx >= dy /\ dx >= dz THEN WalkX(x1, y1, z1, 2 * dy - dx, 2 * dz - dx)
         ELSE IF dy >= dx /\ dy >= dz THEN WalkY(x1, y1, z1, 2 * dx - dy, 2 * dz - dy)
         ELSE WalkZ(x1, y1, z1, 2 * dy - dz, 2 * dx - dz))
        \o <<<<x2, y2, z2>>>>

\* Ground::level(XZPoint): the surface elevation of one column
level(g, x, z) == g.elev[<<x, z>>]

\* Ground::min_level(points): the minimum over the points, or None when the
\* oracle cannot resolve one
min_level(g, pts) ==
    IF ~g.resolves \/ pts = <<>> THEN None
    ELSE LET ls == {level(g, pts[i][1], pts[i][2]) : i \in 1..Len(pts)}
         IN  Some(CHOOSE m \in ls : \A l \in ls : m <= l)

\* The catalogs of block variations
building_corner_variations == <<"CORNER_VARIATION_1", "CORNER_VARIATION_2">>
building_wall_variations == <<"WALL_VARIATION_1", "WALL_VARIATION_2">>
building_floor_variations == <<"FLOOR_VARIATION_1", "FLOOR_VARIATION_2">>

(***************************************************************************)
(* WorldEditor::set_block(block, x, y, z, whitelist, blacklist), noted     *)
(* with the source line of the call.                                       *)
(***************************************************************************)
set_block(block, x, y, z, whitelist, line) ==
    [block |-> block, x |-> x, y |-> y, z |-> z, whitelist |-> whitelist, line |-> line]

(***************************************************************************)
(* generate_buildings, lines 21-124: the parameters of one footprint       *)
(***************************************************************************)
\* lines 26-30
MinLevel(tags) ==
    IF IsSome(Get(tags, "building:min_level"))
    THEN LET r == ParseI32(tags["building:min_level"]) IN IF IsSome(r) THEN Unwrap(r) ELSE 0
    ELSE 0

\* lines 45-82: the blocks of the footprint (no colour tag in the tag universes
\* of this model, so both colour lookups yield None and the fallbacks decide)
CornerBlock(r) == building_corner_variations[r.corner]
WallBlock(tags, r) == building_wall_variations[r.wall]
FloorBlock(tags, r) ==
    LET bt == IF IsSome(Get(tags, "building")) THEN Get(tags, "building")
              ELSE Get(tags, "building:part")
    IN  IF IsSome(bt)
        THEN IF Unwrap(bt) \in {Str_yes, Str_house, Str_detached, Str_static_caravan,
                                Str_semidetached_house, Str_bungalow, Str_manor, Str_villa}
             THEN building_floor_variations[r.floor]
             ELSE "LIGHT_GRAY_CONCRETE"
        ELSE "LIGHT_GRAY_CONCRETE"

\* line 87 (and the comparisons of lines 351, 356)
DefaultHeight(scale) == Max(AsI32(6 * scale[1], scale[2]), 3)

\* Faulty variant: only `layer` is tested
EarlyReject_LayerOnly(tags) ==
    /\ IsSome(Get(tags, "layer"))
    /\ LET r == ParseI32(tags["layer"]) IN (IF IsSome(r) THEN Unwrap(r) ELSE 0) < 0

\* lines 90-100: a negative `layer` or `level`
NegativeTag(tags, k) ==
    /\ IsSome(Get(tags, k))
    /\ LET r == ParseI32(tags[k]) IN (IF IsSome(r) THEN Unwrap(r) ELSE 0) < 0
EarlyReject(tags) == NegativeTag(tags, "layer") \/ NegativeTag(tags, "level")

\* lines 103-112
HeightFromLevels(h, tags, min_lvl, scale) ==
    IF IsSome(Get(tags, "building:levels"))
    THEN LET r == ParseI32(tags["building:levels"])
         IN  IF IsSome(r) /\ Unwrap(r) - min_lvl >= 1
             THEN Max(AsI32(((Unwrap(r) - min_lvl) * 4 + 2) * scale[1], scale[2]), 3)
             ELSE h
    ELSE h

\* Faulty variant: the height tag without the floor of 3
HeightFromHeightTag_NoFloor(h, tags, scale) ==
    IF IsSome(Get(tags, "height"))
    THEN LET r == ParseF64(Trim(TrimEndMatchesM(tags["height"])))
         IN  IF IsSome(r)
             THEN AsI32(Unwrap(r)[1] * scale[1], Unwrap(r)[2] * scale[2])
             ELSE h
    ELSE h

\* lines 114-119
HeightFromHeightTag(h, tags, scale) ==
    IF IsSome(Get(tags, "height"))
    THEN LET r == ParseF64(Trim(TrimEndMatchesM(tags["height"])))
         IN  IF IsSome(r)
             THEN Max(AsI32(Unwrap(r)[1] * scale[1], Unwrap(r)[2] * scale[2]), 3)
             ELSE h
    ELSE h

\* lines 121-124
HeightFromRelation(h, relation_levels, scale) ==
    IF IsSome(relation_levels)
    THEN Max(AsI32((Unwrap(relation_levels) * 4 + 2) * scale[1], scale[2]), 3)
    ELSE h

\* Faulty variant: the relation level count applied before the tags
ResolvedHeight_TagsLast(tags, min_lvl, scale, relation_levels) ==
    HeightFromHeightTag(
        HeightFromLevels(
            HeightFromRelation(DefaultHeight(scale), relation_levels, scale),
            tags, min_lvl, scale),
        tags, scale)

\* lines 87-124 in program order
ResolvedHeight(tags, min_lvl, scale, relation_levels) ==
    HeightFromRelation(
        HeightFromHeightTag(
            HeightFromLevels(DefaultHeight(scale), tags, min_lvl, scale),
            tags, scale),
        relation_levels, scale)

(***************************************************************************)
(* generate_buildings, lines 126-363: the specialized branches             *)
(***************************************************************************)
\* lines 126-127, 167-172, 212-216, 306, 349, 354, 359: which rule claims the
\* footprint, tested in program order
BuildingRule(tags) ==
    LET bt == Get(tags, "building")
    IN  IF ~IsSome(bt) THEN "other"
        ELSE IF Unwrap(bt) = Str_garage THEN "garage"
        ELSE IF Unwrap(bt) = Str_shed
             THEN IF "bicycle_parking" \in DOMAIN tags /\ Get(tags, "covered") = Some(Str_yes)
                  THEN "bicycle_shed"
                  ELSE "shed"
        ELSE IF Unwrap(bt) = Str_parking \/ Get(tags, "parking") = Some(Str_multi_storey)
             THEN "parking"
        ELSE IF Unwrap(bt) = Str_roof THEN "roof"
        ELSE IF Unwrap(bt) = Str_apartments THEN "apartments"
        ELSE IF Unwrap(bt) = Str_hospital THEN "hospital"
        ELSE IF Unwrap(bt) = Str_bridge THEN "bridge"
        ELSE "other"

\* Faulty variant: the building rules tested before the shelter rule
Dispatch_BuildingFirst(tags) ==
    IF BuildingRule(tags) # "other" THEN BuildingRule(tags)
    ELSE IF Get(tags, "amenity") = Some(Str_shelter) THEN "shelter" ELSE "other"

Dispatch(tags) ==
    IF Get(tags, "amenity") = Some(Str_shelter) THEN "shelter" ELSE BuildingRule(tags)

\* lines 169, 171, 351-352, 356-357: the height generic synthesis runs with
SubtypeHeight(rule, h, scale) ==
    CASE rule \in {"garage", "shed"} -> Max(AsI32(2 * scale[1], scale[2]), 3)
      [] rule = "apartments" ->
            IF h = DefaultHeight(scale) THEN Max(AsI32(15 * scale[1], scale[2]), 3) ELSE h
      [] rule = "hospital" ->
            IF h = DefaultHeight(scale) THEN Max(AsI32(23 * scale[1], scale[2]), 3) ELSE h
      [] OTHER -> h

\* Faulty variant: no minimum height
ParkingHeight_Unclamped(h) == h

\* line 221
ParkingHeight(h) == Max(h, 16)

\* lines 147-150, 198-201: the post and the slab on one node column
Posts(x, y, z, roof_block, fence_line, slab_line) ==
    [dy \in 1..4 |-> set_block("OAK_FENCE", x, dy + y, z, None, fence_line)]
    \o <<set_block(roof_block, x, y + 5, z, None, slab_line)>>

\* lines 128-163
ShelterWrites(nodes, g, roof_area) ==
    LET y == min_level(g, nodes)
    IN  IF y = None THEN <<>>
        ELSE Cat([i \in 1..Len(nodes) |->
                    Posts(nodes[i][1], Unwrap(y), nodes[i][2], "STONE_BRICK_SLAB", 148, 150)])
             \o [i \in 1..Len(roof_area) |->
                    set_block("STONE_BRICK_SLAB", roof_area[i][1], Unwrap(y) + 5,
                              roof_area[i][2], None, 160)]

\* lines 173-210
BicycleShedWrites(nodes, g, floor_area) ==
    LET y == min_level(g, nodes)
    IN  IF y = None THEN <<>>
        ELSE [i \in 1..Len(floor_area) |->
                    set_block("OAK_PLANKS", floor_area[i][1], Unwrap(y), floor_area[i][2],
                              None, 190)]
             \o Cat([i \in 1..Len(nodes) |->
                    Posts(nodes[i][1], Unwrap(y), nodes[i][2], "STONE_BLOCK_SLAB", 199, 201)])
             \o [i \in 1..Len(floor_area) |->
                    set_block("STONE_BLOCK_SLAB", floor_area[i][1], Unwrap(y) + 5,
                              floor_area[i][2], None, 207)]

\* lines 235-257: the walls and the floor of one story
ParkingStory(nodes, floor_area, ground_level, lvl) ==
    LET current_level == ground_level + lvl * 4
    IN  Cat([i \in 1..Len(nodes) |->
                [k \in 1..4 |-> set_block("STONE_BRICKS", nodes[i][1], current_level + k,
                                          nodes[i][2], None, 245)]])
        \o [i \in 1..Len(floor_area) |->
                IF lvl = 0
                THEN set_block("SMOOTH_STONE", floor_area[i][1], current_level,
                               floor_area[i][2], None, 252)
                ELSE set_block("COBBLESTONE", floor_area[i][1], current_level,
                               floor_area[i][2], None, 254)]

\* lines 260-303: the outline of one story
ParkingOutline(nodes, ground_level, lvl) ==
    LET current_level == ground_level + lvl * 4
        Edge(i) ==
            LET pts == bresenham_line(nodes[i][1], current_level, nodes[i][2],
                                      nodes[i + 1][1], current_level, nodes[i + 1][2])
            IN  Cat([j \in 1..Len(pts) |->
                    <<set_block("SMOOTH_STONE", pts[j][1], current_level, pts[j][3],
                                Some({"COBBLESTONE", "COBBLESTONE_WALL"}), 273),
                      set_block("STONE_BRICK_SLAB", pts[j][1], current_level + 2, pts[j][3],
                                None, 281)>>
                    \o (IF Rem(pts[j][1], 2) = 0
                        THEN <<set_block("COBBLESTONE_WALL", pts[j][1], current_level + 1,
                                         pts[j][3], None, 290)>>
                        ELSE <<>>)])
    IN  Cat([i \in 1..(Len(nodes) - 1) |-> Edge(i)])

\* lines 223-305
ParkingWrites(nodes, g, floor_area, building_height) ==
    LET ground_level == min_level(g, nodes)
        stories == Trunc(building_height, 4)
    IN  IF ground_level = None THEN <<>>
        ELSE Cat([l \in 1..(stories + 1) |->
                    ParkingStory(nodes, floor_area, Unwrap(ground_level), l - 1)])
             \o Cat([l \in 1..(stories + 1) |->
                    ParkingOutline(nodes, Unwrap(ground_level), l - 1)])

\* lines 307-348
RoofWrites(nodes, g, roof_area) ==
    LET ground_level == min_level(g, nodes)
        roof_height == Unwrap(ground_level) + 5
        Node(i) ==
            (IF i > 1
             THEN LET pts == bresenham_line(nodes[i - 1][1], roof_height, nodes[i - 1][2],
                                            nodes[i][1], roof_height, nodes[i][2])
                  IN  [j \in 1..Len(pts) |->
                        set_block("STONE_BRICK_SLAB", pts[j][1], roof_height, pts[j][3],
                                  None, 321)]
             ELSE <<>>)
            \o [k \in 1..(roof_height - 1 - Unwrap(ground_level)) |->
                    set_block("COBBLESTONE_WALL", nodes[i][1], Unwrap(ground_level) + k,
                              nodes[i][2], None, 327)]
    IN  IF ground_level = None THEN <<>>
        ELSE Cat([i \in 1..Len(nodes) |-> Node(i)])
             \o [i \in 1..Len(roof_area) |->
                    set_block("STONE_BRICK_SLAB", roof_area[i][1], roof_height,
                              roof_area[i][2], None, 344)]

(***************************************************************************)
(* generate_bridge, lines 516-583                                          *)
(***************************************************************************)
\* lines 532-539 and 571-578: the elevation of the bridge on one column
BridgeLevel(tags, g, x, z) ==
    LET lt == Get(tags, "level")
    IN  IF IsSome(lt) /\ IsSome(ParseI32(Unwrap(lt)))
        THEN level(g, x, z) + (Unwrap(ParseI32(Unwrap(lt))) * 3) + 1
        ELSE level(g, x, z)

\* lines 526-554
BridgeRailing(element, g) ==
    LET nodes == element.nodes
        Railing(i) ==
            LET bridge_level == BridgeLevel(element.tags, g, nodes[i + 1][1], nodes[i + 1][2])
                pts == bresenham_line(nodes[i][1], bridge_level, nodes[i][2],
                                     nodes[i + 1][1], bridge_level, nodes[i + 1][2])
            IN  Cat([j \in 1..Len(pts) |->
                    <<set_block("STONE_BRICKS", pts[j][1], pts[j][2] + 1, pts[j][3], None, 548),
                      set_block("STONE_BRICKS", pts[j][1], pts[j][2], pts[j][3], None, 549)>>])
    IN  Cat([i \in 1..(Len(nodes) - 1) |-> Railing(i)])

\* Faulty variant: one elevation for the whole floor, that of the first node
BridgeFloor_Flat(element, g, bridge_area) ==
    [i \in 1..Len(bridge_area) |->
        set_block("STONE", bridge_area[i][1],
                  BridgeLevel(element.tags, g, element.nodes[1][1], element.nodes[1][2]),
                  bridge_area[i][2], None, 581)]

\* lines 569-582
BridgeFloor(element, g, bridge_area) ==
    [i \in 1..Len(bridge_area) |->
        set_block("STONE", bridge_area[i][1],
                  BridgeLevel(element.tags, g, bridge_area[i][1], bridge_area[i][2]),
                  bridge_area[i][2], None, 581)]

generate_bridge(element, g, bridge_area) ==
    BridgeRailing(element, g) \o BridgeFloor(element, g, bridge_area)

(***************************************************************************)
(* generate_buildings, lines 365-466: generic synthesis                    *)
(***************************************************************************)
\* lines 375-385: the block of a traced column (bx, bz) at elevation h
BoundaryBlock(nodes, bx, bz, h, start_level, corner_block, wall_block) ==
    IF nodes[1][1] = bx /\ nodes[1][1] = bz
    THEN set_block(corner_block, bx, h, bz, None, 377)
    ELSE IF h > start_level + 1 /\ Rem(h, 4) # 0 /\ Rem(bx + bz, 6) < 3
         THEN set_block("WHITE_STAINED_GLASS", bx, h, bz, None, 381)
         ELSE set_block(wall_block, bx, h, bz, None, 383)

\* lines 373-410: one traced column
BoundaryColumn(nodes, bx, bz, start_level, building_height, winter, corner_block, wall_block) ==
    [k \in 1..building_height |->
        BoundaryBlock(nodes, bx, bz, start_level + k, start_level, corner_block, wall_block)]
    \o <<set_block("COBBLESTONE", bx, start_level + building_height + 1, bz, None, 388)>>
    \o (IF winter
        THEN <<set_block("SNOW_LAYER", bx, start_level + building_height + 2, bz, None, 398)>>
        ELSE <<>>)

\* lines 370-372: the columns traced from node i to node i + 1
TracedEdge(nodes, i, start_level) ==
    bresenham_line(nodes[i][1], start_level, nodes[i][2],
                   nodes[i + 1][1], start_level, nodes[i + 1][2])

\* lines 366-414
BoundaryWrites(nodes, start_level, building_height, winter, corner_block, wall_block) ==
    Cat([i \in 1..(Len(nodes) - 1) |->
        LET pts == TracedEdge(nodes, i, start_level)
        IN  Cat([j \in 1..Len(pts) |->
                BoundaryColumn(nodes, pts[j][1], pts[j][3], start_level, building_height,
                               winter, corner_block, wall_block)])])

\* lines 408-409: current_building and corner_addup after the tracing
TracedColumns(nodes, start_level) ==
    Cat([i \in 1..(Len(nodes) - 1) |->
        LET pts == TracedEdge(nodes, i, start_level)
        IN  [j \in 1..Len(pts) |-> <<pts[j][1], pts[j][3]>>]])

RECURSIVE CornerAddup(_)
CornerAddup(cols) ==
    IF cols = <<>> THEN <<0, 0, 0>>
    ELSE LET rest == CornerAddup(Tail(cols))
         IN  <<rest[1] + Head(cols)[1], rest[2] + Head(cols)[2], rest[3] + 1>>

\* Faulty variant: the upper end included
RECURSIVE StepBy4_Inclusive(_, _)
StepBy4_Inclusive(from, to) ==
    IF from > to THEN <<>> ELSE <<from>> \o StepBy4_Inclusive(from + 4, to)

\* lines 432-439: the elevations start_level + 6, + 10, ... below start_level + height
RECURSIVE StepBy4(_, _)
StepBy4(from, to) == IF from >= to THEN <<>> ELSE <<from>> \o StepBy4(from + 4, to)

\* lines 427-463: one interior column
InteriorColumn(x, z, start_level, building_height, winter, floor_block) ==
    <<set_block(floor_block, x, start_level, z, None, 428)>>
    \o (IF building_height > 4
        THEN LET hs == StepBy4(start_level + 2 + 4, start_level + building_height)
             IN  [k \in 1..Len(hs) |->
                    IF Rem(x, 6) = 0 /\ Rem(z, 6) = 0
                    THEN set_block("GLOWSTONE", x, hs[k], z, None, 435)
                    ELSE set_block(floor_block, x, hs[k], z, None, 437)]
        ELSE IF Rem(x, 6) = 0 /\ Rem(z, 6) = 0
             THEN <<set_block("GLOWSTONE", x, start_level + building_height, z, None, 441)>>
             ELSE <<>>)
    \o <<set_block(floor_block, x, start_level + building_height + 1, z, None, 445)>>
    \o (IF winter
        THEN <<set_block("SNOW_LAYER", x, start_level + building_height + 2, z, None, 455)>>
        ELSE <<>>)

\* Faulty variant: no column is remembered as processed
RECURSIVE InteriorWrites_NoDedup(_, _, _, _, _, _)
InteriorWrites_NoDedup(floor_area, processed_points, start_level, building_height, winter, floor_block) ==
    IF floor_area = <<>> THEN <<>>
    ELSE InteriorColumn(Head(floor_area)[1], Head(floor_area)[2], start_level,
                        building_height, winter, floor_block)
         \o InteriorWrites_NoDedup(Tail(floor_area), processed_points, start_level,
                                   building_height, winter, floor_block)

\* lines 425-465: the loop over the fill, processed_points being the columns
\* this loop has inserted so far
RECURSIVE InteriorWrites(_, _, _, _, _, _)
InteriorWrites(floor_area, processed_points, start_level, building_height, winter, floor_block) ==
    IF floor_area = <<>> THEN <<>>
    ELSE LET c == Head(floor_area)
         IN  (IF c \notin processed_points
              THEN InteriorColumn(c[1], c[2], start_level, building_height, winter, floor_block)
              ELSE <<>>)
             \o InteriorWrites(Tail(floor_area), processed_points \cup {c}, start_level,
                               building_height, winter, floor_block)

\* lines 365-466
GenericWrites(element, a, r, floor_area, start_level, building_height) ==
    BoundaryWrites(element.nodes, start_level, building_height, a.winter,
                   CornerBlock(r), WallBlock(element.tags, r))
    \o (IF CornerAddup(TracedColumns(element.nodes, start_level)) # <<0, 0, 0>>
        THEN InteriorWrites(floor_area, {}, start_level, building_height, a.winter,
                            FloorBlock(element.tags, r))
        ELSE <<>>)

(***************************************************************************)
(* generate_buildings: what one invocation does.  The result records the   *)
(* branch that ran, building_height and start_level as they stand when it  *)
(* returns, and the set_block calls in order.                              *)
(***************************************************************************)
Outcome(element, relation_levels, branch, building_height, start_level, writes) ==
    [element |-> element, relation_levels |-> relation_levels, branch |-> branch,
     building_height |-> building_height, start_level |-> start_level, writes |-> writes]

generate_buildings(element, g, a, relation_levels, r, area) ==
    LET tags == element.tags
        nodes == element.nodes
        base_y == min_level(g, nodes)
        min_lvl == MinLevel(tags)
        start_level == Unwrap(base_y) + (min_lvl * 4)
        resolved == ResolvedHeight(tags, min_lvl, a.scale, relation_levels)
        rule == Dispatch(tags)
        Done(branch, h, writes) ==
            Outcome(element, relation_levels, branch, h, start_level, writes)
    IN  IF base_y = None
        THEN Outcome(element, relation_levels, "unresolved", 0, 0, <<>>)
        ELSE IF EarlyReject(tags)
        THEN Done("rejected", DefaultHeight(a.scale), <<>>)
        ELSE CASE rule = "shelter" -> Done("shelter", resolved, ShelterWrites(nodes, g, area))
               [] rule = "bicycle_shed" ->
                    Done("bicycle_shed", SubtypeHeight("shed", resolved, a.scale),
                         BicycleShedWrites(nodes, g, area))
               [] rule = "parking" ->
                    Done("parking", ParkingHeight(resolved),
                         ParkingWrites(nodes, g, area, ParkingHeight(resolved)))
               [] rule = "roof" -> Done("roof", resolved, RoofWrites(nodes, g, area))
               [] rule = "bridge" -> Done("bridge", resolved, generate_bridge(element, g, area))
               [] OTHER ->
                    LET building_height == SubtypeHeight(rule, resolved, a.scale)
                    IN  Done("generic", building_height,
                             GenericWrites(element, a, r, area, start_level, building_height))

(***************************************************************************)
(* generate_building_from_relation, lines 469-503                          *)
(***************************************************************************)
\* lines 476-480
RelationLevels(tags) ==
    LET t == Get(tags, "building:levels")
    IN  IF IsSome(t) /\ IsSome(ParseI32(Unwrap(t))) THEN Unwrap(ParseI32(Unwrap(t))) ELSE 2

\* Faulty variant: every member is synthesized, whatever its role
RECURSIVE RelationCalls_AllMembers(_, _, _, _, _, _)
RelationCalls_AllMembers(members, relation_levels, g, a, r, area) ==
    IF members = <<>> THEN <<>>
    ELSE <<generate_buildings(Head(members).way, g, a, Some(relation_levels), r, area)>>
         \o RelationCalls_AllMembers(Tail(members), relation_levels, g, a, r, area)

\* lines 483-487: the invocations, in member order
RECURSIVE RelationCalls(_, _, _, _, _, _)
RelationCalls(members, relation_levels, g, a, r, area) ==
    IF members = <<>> THEN <<>>
    ELSE (IF Head(members).role = "Outer"
          THEN <<generate_buildings(Head(members).way, g, a, Some(relation_levels), r, area)>>
          ELSE <<>>)
         \o RelationCalls(Tail(members), relation_levels, g, a, r, area)

generate_building_from_relation(relation, g, a, r, area) ==
    RelationCalls(relation.members, RelationLevels(relation.tags), g, a, r, area)

(***************************************************************************)
(* The caller: it hands the ways to generate_buildings (no relation level  *)
(* count) and the relations to generate_building_from_relation.            *)
(***************************************************************************)
RECURSIVE AllWrites(_)
AllWrites(cs) == IF cs = <<>> THEN <<>> ELSE Head(cs).writes \o AllWrites(Tail(cs))

ProcessWay ==
    /\ queue # <<>>
    /\ Head(queue).kind = "way"
    /\ LET c == generate_buildings(Head(queue).way, ground, args, None, rng, fill)
       IN  /\ editor' = editor \o c.writes
           /\ calls' = Append(calls, <<c>>)
    /\ queue' = Tail(queue)
    /\ handled' = Append(handled, Head(queue))
    /\ UNCHANGED <<ground, args, rng, fill>>

ProcessRelation ==
    /\ queue # <<>>
    /\ Head(queue).kind = "relation"
    /\ LET cs == generate_building_from_relation(Head(queue).relation, ground, args, rng, fill)
       IN  /\ editor' = editor \o AllWrites(cs)
           /\ calls' = Append(calls, cs)
    /\ queue' = Tail(queue)
    /\ handled' = Append(handled, Head(queue))
    /\ UNCHANGED <<ground, args, rng, fill>>

Next == ProcessWay \/ ProcessRelation

(***************************************************************************)
(* Bounds and input universes                                              *)
(***************************************************************************)
MaxLevels == 3      \* building:levels values range over -1..MaxLevels
MaxCoord == 6       \* the ground is known on the columns -MaxCoord..MaxCoord squared
MaxFill == 2        \* flood_fill_area returns at most MaxFill columns

\* i32::to_string, to write the numeric tag values
RECURSIVE Itoa(_)
Itoa(n) ==
    IF n < 0 THEN <<"-">> \o Itoa(-n)
    ELSE IF n < 10 THEN <<Digits[n + 1]>>
    ELSE Itoa(n \div 10) \o <<Digits[(n % 10) + 1]>>

Columns == (-MaxCoord..MaxCoord) \X (-MaxCoord..MaxCoord)

Flat(e) == [resolves |-> TRUE, elev |-> [c \in Columns |-> e]]
Slope(e) == [resolves |-> TRUE, elev |-> [c \in Columns |-> e + c[1] + 2 * c[2]]]
Unresolvable == [resolves |-> FALSE, elev |-> [c \in Columns |-> 0]]

\* Sequences of distinct columns of cs, of length at most n
RECURSIVE Distinct(_, _)
Distinct(cs, n) ==
    IF n = 0 THEN {<<>>}
    ELSE LET shorter == Distinct(cs, n - 1)
             longest == {q \in shorter : Len(q) = n - 1}
         IN  shorter \cup
             {Append(p[1], p[2]) :
                p \in {p \in longest \X cs : \A i \in 1..Len(p[1]) : p[1][i] # p[2]}}

\* Tag maps with the key k absent or set to one of vals
Opt(k, vals) == {<<>>} \cup {k :> v : v \in vals}

Way(nodes, tags) == [kind |-> "way", way |-> [nodes |-> nodes, tags |-> tags]]
Member(role, nodes, tags) == [role |-> role, way |-> [nodes |-> nodes, tags |-> tags]]
Relation(tags, members) ==
    [kind |-> "relation", relation |-> [tags |-> tags, members |-> members]]

Run(q, g, a, r, f) == [queue |-> q, ground |-> g, args |-> a, rng |-> r, fill |-> f]

Args(scale, winter) == [scale |-> scale, winter |-> winter]
Rng(c, w, f) == [corner |-> c, wall |-> w, floor |-> f]

\* Footprints
Segment == <<<<0, 0>>, <<1, 0>>>>
Square == <<<<0, 0>>, <<4, 0>>, <<4, 4>>, <<0, 4>>>>
WestSegment == <<<<-1, 0>>, <<5, 0>>>>

Scales == {<<1, 2>>, <<1, 1>>, <<3, 2>>}

LevelStrs == {<<"x">>} \cup {Itoa(n) : n \in 0..MaxLevels}
HeightStrs == {<<"x">>, <<"6">>, <<"2", ".", "5">>, <<"-", "4">>, <<"7", "m">>,
               <<"1", "3", " ", "m">>}

\* Universe of the height derivation: every combination of the sources
HeightTags(minLevels) ==
    {a @@ b @@ c @@ d :
        a \in Opt("building", {Str_house, Str_garage, Str_shed, Str_apartments, Str_hospital}),
        b \in Opt("building:levels", LevelStrs),
        c \in Opt("building:min_level", minLevels),
        d \in Opt("height", HeightStrs)}

HeightRuns ==
    {Run(<<Way(Segment, t)>>, Flat(0), Args(sc, FALSE), Rng(1, 1, 1), <<<<1, 1>>>>) :
        t \in HeightTags({<<"1">>, <<"x">>}), sc \in Scales}
    \cup
    {Run(<<Relation(rt, <<Member("Outer", Segment, t)>>)>>, Flat(0), Args(sc, FALSE),
         Rng(1, 1, 1), <<<<1, 1>>>>) :
        rt \in Opt("building:levels", {<<"x">>, <<"-", "1">>, <<"1">>, Itoa(MaxLevels)}),
        t \in HeightTags({}), sc \in Scales}

InitOf(runs) ==
    /\ editor = <<>>
    /\ calls = <<>>
    /\ handled = <<>>
    /\ \E u \in runs :
        /\ queue = u.queue
        /\ ground = u.ground
        /\ args = u.args
        /\ rng = u.rng
        /\ fill = u.fill

InitHeight == InitOf(HeightRuns)
SpecHeight == InitHeight /\ [][Next]_vars

\* Universe of the dispatch: every subtype with the tags of the earlier rules,
\* on resolvable and unresolvable ground, with and without a negative layer/level
Triangle == <<<<0, 0>>, <<2, 0>>, <<2, 2>>>>
Point == <<<<2, 3>>>>

LayerLevelTags ==
    {<<>>, "layer" :> <<"-", "1">>, "layer" :> <<"1">>, "layer" :> <<"-", "1", ".", "5">>,
     "level" :> <<"-", "1">>, "level" :> <<"2">>, "level" :> <<"x">>}

DispatchTags ==
    {a @@ b @@ c @@ d @@ e @@ f :
        a \in Opt("building", {Str_house, Str_garage, Str_shed, Str_parking, Str_roof,
                               Str_apartments, Str_hospital, Str_bridge}),
        b \in Opt("amenity", {Str_shelter}),
        c \in Opt("parking", {Str_multi_storey}),
        d \in {<<>>, "bicycle_parking" :> Str_yes @@ "covered" :> Str_yes},
        e \in LayerLevelTags,
        f \in Opt("height", {<<"2", "0">>})}

DispatchRuns ==
    {Run(<<Way(gf[2], t)>>, gf[1], Args(<<1, 1>>, FALSE), Rng(1, 2, 1), f) :
        t \in DispatchTags,
        gf \in {<<Flat(3), Triangle>>, <<Slope(20), Triangle>>, <<Unresolvable, Triangle>>,
                <<Slope(20), <<>> >>, <<Slope(20), Point>>},
        f \in {<<>>, <<<<1, 1>>, <<2, 0>>>>}}

\* Universe of the relations: up to MaxMembers members of every role
MaxMembers == 2     \* a relation has at most MaxMembers members

RECURSIVE SeqsUpTo(_, _)
SeqsUpTo(S, n) ==
    IF n = 0 THEN {<<>>}
    ELSE LET shorter == SeqsUpTo(S, n - 1)
         IN  shorter \cup {Append(p[1], p[2]) : p \in {q \in shorter : Len(q) = n - 1} \X S}

MemberWays ==
    {[nodes |-> Segment, tags |-> "building" :> Str_house],
     [nodes |-> Triangle, tags |-> "amenity" :> Str_shelter],
     [nodes |-> Segment, tags |-> "building" :> Str_parking @@ "layer" :> <<"-", "1">>]}

RelationRuns ==
    {Run(<<Relation(rt, ms)>>, g, Args(<<1, 1>>, FALSE), Rng(1, 1, 2), <<<<1, 1>>>>) :
        rt \in Opt("building:levels", {<<"x">>, <<"-", "1">>, <<"1">>, Itoa(MaxLevels)}),
        ms \in SeqsUpTo([role : {"Outer", "Inner", "Other"}, way : MemberWays], MaxMembers),
        g \in {Slope(20), Unresolvable}}
    \cup
    {Run(<<Way(Segment, "building" :> Str_garage), Relation(rt, <<m>>)>>, Slope(20),
         Args(<<1, 1>>, FALSE), Rng(1, 1, 2), <<<<1, 1>>>>) :
        rt \in Opt("building:levels", {<<"x">>, <<"1">>}),
        m \in [role : {"Outer", "Inner", "Other"}, way : MemberWays]}

InitDispatch == InitOf(DispatchRuns \cup RelationRuns)
SpecDispatch == InitDispatch /\ [][Next]_vars

\* Universe of the geometry: the fills, grounds and footprints, with the tags
\* that set the elevations
FillColumns == {<<0, 0>>, <<1, 1>>, <<2, 0>>, <<6, -6>>}

GenericTags ==
    {"building" :> Str_house @@ "building:levels" :> <<"2">>,
     "building" :> Str_house @@ "building:levels" :> <<"1">>,
     "building" :> Str_house @@ "height" :> <<"4">>,
     "building" :> Str_house @@ "height" :> <<"5">>,
     "building" :> Str_house @@ "height" :> <<"1", "1">>,
     "building" :> Str_garage,
     "building" :> Str_apartments,
     "building:part" :> Str_yes @@ "building:levels" :> Itoa(MaxLevels)
        @@ "building:min_level" :> <<"1">>,
     "building" :> Str_yes @@ "building:min_level" :> <<"x">>}

BridgeTags ==
    {"building" :> Str_bridge @@ l :
        l \in Opt("level", {<<"0">>, <<"1">>, <<"2">>, <<"x">>})}

ParkingTags ==
    {"building" :> Str_parking @@ h @@ a :
        h \in Opt("height", {<<"1", "8">>, <<"2", "0">>}),
        a \in Opt("amenity", {Str_shelter})}

GeometryRuns ==
    {Run(<<Way(n, t)>>, g, Args(<<1, 1>>, w), Rng(2, 1, 2), f) :
        t \in GenericTags \cup BridgeTags \cup ParkingTags,
        n \in {Square, Segment, WestSegment},
        g \in {Flat(3), Slope(20)},
        w \in BOOLEAN,
        f \in Distinct(FillColumns, MaxFill)}
    \cup
    {Run(<<Relation(<<>>, <<Member("Outer", Square, t)>>)>>, Slope(20), Args(<<1, 1>>, FALSE),
         Rng(1, 1, 1), f) :
        t \in GenericTags \cup BridgeTags \cup ParkingTags,
        f \in Distinct(FillColumns, MaxFill)}

InitGeometry == InitOf(GeometryRuns)
SpecGeometry == InitGeometry /\ [][Next]_vars

\* Universe of the interior pass: the fill as any Vec of columns, a column
\* possibly more than once, columns of the traced boundary among them
InteriorRuns ==
    {Run(<<Way(n, t)>>, Flat(3), Args(<<1, 1>>, w), Rng(1, 2, 1), f) :
        t \in GenericTags,
        n \in {Square, Segment},
        w \in BOOLEAN,
        f \in SeqsUpTo(FillColumns, MaxFill)}
    \cup
    {Run(<<Relation(<<>>, <<Member("Outer", Square, t)>>)>>, Slope(20), Args(<<1, 1>>, FALSE),
         Rng(1, 1, 1), f) :
        t \in GenericTags,
        f \in SeqsUpTo(FillColumns, MaxFill)}

InitInterior == InitOf(InteriorRuns)
SpecInterior == InitInterior /\ [][Next]_vars

(***************************************************************************)
(* Properties of the height derivation                                     *)
(***************************************************************************)
Building(c) == Get(c.element.tags, "building")
\* Every invocation so far, in order
AllCalls == Cat(calls)
GenericCalls == {c \in {AllCalls[i] : i \in 1..Len(AllCalls)} : c.branch = "generic"}

\* max(3, (n/d) * scale) with the product cut to an integer
Scaled(n, d, scale) == Max(AsI32(n * scale[1], d * scale[2]), 3)

\* The sources of the height that are present and valid
HeightTagValue(tags) ==
    IF "height" \in DOMAIN tags THEN ParseF64(Trim(TrimEndMatchesM(tags["height"]))) ELSE None
StoriesValue(tags) ==
    IF "building:levels" \in DOMAIN tags /\ IsSome(ParseI32(tags["building:levels"]))
       /\ Unwrap(ParseI32(tags["building:levels"])) - MinLevel(tags) >= 1
    THEN Some(Unwrap(ParseI32(tags["building:levels"])) - MinLevel(tags))
    ELSE None

\* The value of the highest-priority source below garage/shed
SourceHeight(c) ==
    LET tags == c.element.tags
    IN  IF IsSome(c.relation_levels) THEN Scaled(Unwrap(c.relation_levels) * 4 + 2, 1, args.scale)
        ELSE IF IsSome(HeightTagValue(tags))
             THEN Scaled(Unwrap(HeightTagValue(tags))[1], Unwrap(HeightTagValue(tags))[2],
                         args.scale)
        ELSE IF IsSome(StoriesValue(tags))
             THEN Scaled(Unwrap(StoriesValue(tags)) * 4 + 2, 1, args.scale)
        ELSE Scaled(6, 1, args.scale)

PriorityHeight(c) ==
    IF Building(c) \in {Some(Str_garage), Some(Str_shed)} THEN Scaled(2, 1, args.scale)
    ELSE SourceHeight(c)

\* C1: the height generic synthesis runs with is at least 3, whatever the
\* scale, the tags, the relation level count and the building subtype.
C1_HeightAtLeast3 ==
    \A c \in GenericCalls : c.building_height >= 3

\* A generic run whose only source is a negative height tag: the floor of 3 decides.
C1_Witness ==
    \E c \in GenericCalls :
        /\ Get(c.element.tags, "height") = Some(<<"-", "4">>)
        /\ c.relation_levels = None
        /\ Building(c) = Some(Str_house)
        /\ c.building_height = 3

C10_AsStated ==
    \A c \in GenericCalls :
        LET untouched == /\ c.relation_levels = None
                         /\ HeightTagValue(c.element.tags) = None
                         /\ StoriesValue(c.element.tags) = None
        IN  /\ Building(c) = Some(Str_apartments) =>
                c.building_height =
                    IF untouched THEN Scaled(15, 1, args.scale) ELSE SourceHeight(c)
            /\ Building(c) = Some(Str_hospital) =>
                c.building_height =
                    IF untouched THEN Scaled(23, 1, args.scale) ELSE SourceHeight(c)

(***************************************************************************)
(* Properties of the early checks and of the dispatch                      *)
(***************************************************************************)
CallSet == {AllCalls[i] : i \in 1..Len(AllCalls)}

\* The tag k parses to a negative integer
ParsesNegative(tags, k) ==
    k \in DOMAIN tags /\ IsSome(ParseI32(tags[k])) /\ Unwrap(ParseI32(tags[k])) < 0

\* The footprint of c passes the early checks
PassesEarlyChecks(c) ==
    /\ IsSome(min_level(ground, c.element.nodes))
    /\ ~ParsesNegative(c.element.tags, "layer")
    /\ ~ParsesNegative(c.element.tags, "level")

\* The minimum ground elevation of the nodes of c
Base(c) == Unwrap(min_level(ground, c.element.nodes))

Nodes(c) == {c.element.nodes[i] : i \in 1..Len(c.element.nodes)}
FillSet == {fill[i] : i \in 1..Len(fill)}
Writes(c) == {c.writes[i] : i \in 1..Len(c.writes)}

\* C2: no set_block call is issued for a footprint whose minimum ground
\* elevation cannot be resolved or whose layer or level tag parses to a
\* negative integer, whatever its subtype, ways and relation members alike.
C2_NoWritesWhenSkipped ==
    /\ \A c \in CallSet : ~PassesEarlyChecks(c) => c.writes = <<>>
    /\ editor = AllWrites(AllCalls)

\* A relation member tagged building=parking with layer=-1, on ground that
\* resolves, has been synthesized without a write.
C2_Witness ==
    \E c \in CallSet :
        /\ IsSome(c.relation_levels)
        /\ IsSome(min_level(ground, c.element.nodes))
        /\ Building(c) = Some(Str_parking)
        /\ ParsesNegative(c.element.tags, "layer")
        /\ c.writes = <<>>

\* C5: a footprint with amenity=shelter that passes the early checks gets
\* only fence posts on its node columns at base+1..base+4 and slabs at
\* base+5 on its node columns and on the columns of the fill, whatever its
\* other tags.
C5_ShelterPostsAndSlabs ==
    \A c \in CallSet :
        (Get(c.element.tags, "amenity") = Some(Str_shelter) /\ PassesEarlyChecks(c)) =>
            \A w \in Writes(c) :
                \/ /\ w.block = "OAK_FENCE"
                   /\ <<w.x, w.z>> \in Nodes(c)
                   /\ w.y \in (Base(c) + 1)..(Base(c) + 4)
                \/ /\ w.block = "STONE_BRICK_SLAB"
                   /\ <<w.x, w.z>> \in Nodes(c) \cup FillSet
                   /\ w.y = Base(c) + 5

\* A shelter that is also tagged building=parking has got its posts and the
\* slabs of its fill.
C5_Witness ==
    \E c \in CallSet :
        /\ Get(c.element.tags, "amenity") = Some(Str_shelter)
        /\ Building(c) = Some(Str_parking)
        /\ PassesEarlyChecks(c)
        /\ \E w \in Writes(c) : w.block = "OAK_FENCE"
        /\ \E w \in Writes(c) : w.block = "STONE_BRICK_SLAB" /\ <<w.x, w.z>> \notin Nodes(c)

\* The footprint of c is claimed by a rule tested before the parking rule
ClaimedEarlier(c) ==
    \/ Get(c.element.tags, "amenity") = Some(Str_shelter)
    \/ Building(c) \in {Some(Str_garage), Some(Str_shed)}

\* C9 as stated: a footprint that passes the early checks, is not claimed by
\* an earlier rule and has building=parking or parking=multi-storey is
\* synthesized by the parking branch with a height of at least 16, also
\* when it carries no building tag.
C9_AsStated ==
    \A c \in CallSet :
        (/\ PassesEarlyChecks(c)
         /\ ~ClaimedEarlier(c)
         /\ \/ Building(c) = Some(Str_parking)
            \/ Get(c.element.tags, "parking") = Some(Str_multi_storey))
        => (c.branch = "parking" /\ c.building_height >= 16)

(***************************************************************************)
(* Properties of the relation delegation                                   *)
(***************************************************************************)
OuterWays(members) ==
    LET outer == SelectSeq(members, LAMBDA m : m.role = "Outer")
    IN  [i \in 1..Len(outer) |-> outer[i].way]

\* C7: for a relation, one level count L is taken from its building:levels
\* tag (2 when absent or unparseable) and generate_buildings is invoked once
\* for each Outer member, in member order, with Some(L); no other member
\* causes an invocation or a write.
C7_OuterMembersOnly ==
    /\ \A k \in 1..Len(handled) :
        handled[k].kind = "relation" =>
            LET rel == handled[k].relation
                L == IF "building:levels" \in DOMAIN rel.tags
                        /\ IsSome(ParseI32(rel.tags["building:levels"]))
                     THEN Unwrap(ParseI32(rel.tags["building:levels"]))
                     ELSE 2
                ways == OuterWays(rel.members)
            IN  /\ Len(calls[k]) = Len(ways)
                /\ \A i \in 1..Len(ways) :
                    /\ calls[k][i].element = ways[i]
                    /\ calls[k][i].relation_levels = Some(L)
    /\ editor = AllWrites(AllCalls)

\* A relation without a building:levels tag, with an Inner member before an
\* Outer one: one invocation, for the Outer member, with Some(2).
C7_Witness ==
    \E k \in 1..Len(handled) :
        /\ handled[k].kind = "relation"
        /\ "building:levels" \notin DOMAIN handled[k].relation.tags
        /\ Len(handled[k].relation.members) = 2
        /\ handled[k].relation.members[1].role = "Inner"
        /\ handled[k].relation.members[2].role = "Outer"
        /\ Len(calls[k]) = 1
        /\ calls[k][1].relation_levels = Some(2)
        /\ calls[k][1].writes # <<>>

(***************************************************************************)
(* Properties of the elevations                                            *)
(***************************************************************************)
\* The indices of the writes of c on column p issued at one of the lines
WritesAt(c, p, lines) ==
    {i \in 1..Len(c.writes) :
        c.writes[i].line \in lines /\ <<c.writes[i].x, c.writes[i].z>> = p}

\* The parking branch as C4 describes it: height max(resolved, 16); on every
\* column of the fill one floor write at each elevation base + 4k with
\* 0 <= 4k <= height (SMOOTH_STONE for k = 0, COBBLESTONE above) and none
\* elsewhere; no write of generic synthesis.
ParkingSynthesis(c) ==
    /\ c.branch = "parking"
    /\ c.building_height >= 16
    /\ c.building_height = Max(SourceHeight(c), 16)
    /\ \A p \in FillSet :
        LET floors == WritesAt(c, p, {252, 254})
        IN  /\ \A k \in 0..c.building_height :
                4 * k <= c.building_height =>
                    /\ Cardinality({i \in floors : c.writes[i].y = Base(c) + 4 * k}) = 1
                    /\ \A i \in floors :
                        c.writes[i].y = Base(c) + 4 * k =>
                            c.writes[i].block = IF k = 0 THEN "SMOOTH_STONE" ELSE "COBBLESTONE"
            /\ \A i \in floors :
                \E k \in 0..c.building_height :
                    4 * k <= c.building_height /\ c.writes[i].y = Base(c) + 4 * k
    /\ \A w \in Writes(c) : w.line \in {245, 252, 254, 273, 281, 290}

\* C4 as stated: every footprint with building=parking that passes the early
\* checks is synthesized as a parking structure.
C4_AsStated ==
    \A c \in CallSet :
        (Building(c) = Some(Str_parking) /\ PassesEarlyChecks(c)) => ParkingSynthesis(c)

\* C4 amended: every footprint with building=parking and without
\* amenity=shelter that passes the early checks is synthesized as a parking
\* structure.
C4_ParkingUnlessShelter ==
    \A c \in CallSet :
        (/\ Building(c) = Some(Str_parking)
         /\ Get(c.element.tags, "amenity") # Some(Str_shelter)
         /\ PassesEarlyChecks(c))
        => ParkingSynthesis(c)

\* A parking structure of height 20 on sloped ground with two fill columns:
\* its top floor is at base + 20.
C4_Witness ==
    \E c \in CallSet :
        /\ Building(c) = Some(Str_parking)
        /\ Get(c.element.tags, "amenity") # Some(Str_shelter)
        /\ PassesEarlyChecks(c)
        /\ c.building_height = 20
        /\ Len(fill) = 2
        /\ \E i \in WritesAt(c, fill[2], {254}) : c.writes[i].y = Base(c) + 20

\* The offset of a bridge above the ground
BridgeOffset(tags) ==
    IF "level" \in DOMAIN tags /\ IsSome(ParseI32(tags["level"]))
    THEN 3 * Unwrap(ParseI32(tags["level"])) + 1
    ELSE 0

\* The indices of the floor-block writes of the bridge c on column p
BridgeFloorWrites(c, p) ==
    {i \in 1..Len(c.writes) :
        c.writes[i].block = "STONE" /\ <<c.writes[i].x, c.writes[i].z>> = p}

\* C6: in bridge synthesis every column p of the fill gets exactly one
\* floor-block write, at the ground elevation of p plus 3*level+1 when the
\* level tag parses (plus 0 otherwise); so the floor blocks of two columns
\* differ in elevation by what their terrain heights differ.
C6_BridgeFollowsGround ==
    \A c \in CallSet :
        c.branch = "bridge" =>
            /\ \A p \in FillSet :
                /\ Cardinality(BridgeFloorWrites(c, p)) = 1
                /\ \A i \in BridgeFloorWrites(c, p) :
                    c.writes[i].y = ground.elev[p] + BridgeOffset(c.element.tags)
            /\ \A p, q \in FillSet :
                \A i \in BridgeFloorWrites(c, p), j \in BridgeFloorWrites(c, q) :
                    c.writes[i].y - c.writes[j].y = ground.elev[p] - ground.elev[q]

\* A bridge with level=2 over two fill columns of different terrain height:
\* neither floor block is at the elevation of the other, nor both at that
\* of the lowest node plus the offset.
C6_Witness ==
    \E c \in CallSet :
        /\ c.branch = "bridge"
        /\ Get(c.element.tags, "level") = Some(<<"2">>)
        /\ Len(fill) = 2
        /\ ground.elev[fill[1]] # ground.elev[fill[2]]
        /\ \E i \in BridgeFloorWrites(c, fill[1]), j \in BridgeFloorWrites(c, fill[2]) :
            /\ c.writes[i].y # c.writes[j].y
            /\ c.writes[i].y # Base(c) + 7

\* The interior-pass writes C8 describes for the column (x, z), as pairs of
\* block and elevation
InteriorExpected(c, x, z) ==
    LET tags == c.element.tags
        min_lvl == IF "building:min_level" \in DOMAIN tags
                      /\ IsSome(ParseI32(tags["building:min_level"]))
                   THEN Unwrap(ParseI32(tags["building:min_level"]))
                   ELSE 0
        start == Base(c) + 4 * min_lvl
        h == c.building_height
        floor == FloorBlock(tags, rng)
        grid == x % 6 = 0 /\ z % 6 = 0
    IN  {<<floor, start>>, <<floor, start + h + 1>>}
        \cup (IF h > 4
              THEN {<<IF grid THEN "GLOWSTONE" ELSE floor, start + 6 + 4 * k>> :
                        k \in {k \in 0..h : start + 6 + 4 * k < start + h}}
              ELSE IF grid THEN {<<"GLOWSTONE", start + h>>} ELSE {})
        \cup (IF args.winter THEN {<<"SNOW_LAYER", start + h + 2>>} ELSE {})

InteriorLines == {428, 435, 437, 441, 445, 455}

\* C8: in the generic branch every column of the fill gets the floor block
\* at start = base + 4*min_level, the intermediate ceilings or light
\* fixtures at start+6+4k below start+height when height > 4 (a light
\* fixture at start+height on the 6x6 grid when height <= 4), the ceiling at
\* start+height+1 and, in winter only, the snow layer at start+height+2, and
\* nothing else; building=house with building:levels=2 at scale 1 has
\* height 10 and its floor, one intermediate ceiling and its ceiling at
\* base, base+6 and base+11.
C8_InteriorElevations ==
    \A c \in GenericCalls :
        Len(c.element.nodes) >= 2 =>
            /\ \A p \in FillSet :
                LET iw == WritesAt(c, p, InteriorLines)
                IN  /\ {<<c.writes[i].block, c.writes[i].y>> : i \in iw}
                        = InteriorExpected(c, p[1], p[2])
                    /\ Cardinality(iw) = Cardinality(InteriorExpected(c, p[1], p[2]))
            /\ (/\ c.element.tags = ("building" :> Str_house @@ "building:levels" :> <<"2">>)
                /\ c.relation_levels = None
                /\ args.scale = <<1, 1>>
                /\ ~args.winter)
               => /\ c.building_height = 10
                  /\ c.start_level = Base(c)
                  /\ \A p \in FillSet :
                        {c.writes[i].y : i \in WritesAt(c, p, InteriorLines)}
                            = {Base(c), Base(c) + 6, Base(c) + 11}

\* A building part with min_level 1 and height above 4, in winter, over a
\* fill with a column on the 6x6 grid and one off it: the grid column has
\* its light fixture at start + 6, the other its floor block there.
C8_Witness ==
    \E c \in GenericCalls :
        /\ Get(c.element.tags, "building:min_level") = Some(<<"1">>)
        /\ c.start_level = Base(c) + 4
        /\ c.building_height > 6
        /\ args.winter
        /\ Len(fill) = 2
        /\ \E i \in WritesAt(c, fill[1], {435}) : c.writes[i].y = c.start_level + 6
        /\ \E i \in WritesAt(c, fill[2], {437}) : c.writes[i].y = c.start_level + 6

(***************************************************************************)
(* Properties of the two passes of generic synthesis                       *)
(***************************************************************************)
BoundaryLines == {377, 381, 383, 388, 398}

\* The columns boundary tracing touched in the invocation c
Traced(c) ==
    LET cols == TracedColumns(c.element.nodes, c.start_level)
    IN  {cols[i] : i \in 1..Len(cols)}

\* The indices of the writes of c issued at one of the lines
WritesOf(c, lines) == {i \in 1..Len(c.writes) : c.writes[i].line \in lines}

\* Each column gets its interior-pass writes at most once: no two
\* interior-pass writes of c go to the same voxel.
InteriorAtMostOnce(c) ==
    \A i, j \in WritesOf(c, InteriorLines) :
        (/\ c.writes[i].x = c.writes[j].x
         /\ c.writes[i].y = c.writes[j].y
         /\ c.writes[i].z = c.writes[j].z) => i = j

\* C11 as stated: each column gets its interior-pass writes at most once,
\* no interior-pass write is on a column boundary tracing touched, and the
\* two passes never write the same voxel.
C11_AsStated ==
    \A c \in GenericCalls :
        /\ InteriorAtMostOnce(c)
        /\ \A i \in WritesOf(c, InteriorLines) :
            <<c.writes[i].x, c.writes[i].z>> \notin Traced(c)
        /\ \A i \in WritesOf(c, InteriorLines), j \in WritesOf(c, BoundaryLines) :
            ~(/\ c.writes[i].x = c.writes[j].x
              /\ c.writes[i].y = c.writes[j].y
              /\ c.writes[i].z = c.writes[j].z)

\* C11 amended: the interior pass is deduplicated against itself only: each
\* column gets its interior-pass writes at most once, however often the fill
\* returns it; every column of the fill gets them, a column boundary tracing
\* touched included.
C11_InteriorDedupOnly ==
    \A c \in GenericCalls :
        /\ InteriorAtMostOnce(c)
        /\ Len(c.element.nodes) >= 2 =>
            \A p \in FillSet :
                \E i \in WritesAt(c, p, {428}) : c.writes[i].y = c.start_level

\* The fill returns a column of the traced boundary twice: the column has
\* one interior-pass ceiling, on the very voxel that carries the cap of
\* boundary tracing.
C11_Witness ==
    \E c \in GenericCalls :
        /\ Len(fill) = 2
        /\ fill[1] = fill[2]
        /\ fill[1] \in Traced(c)
        /\ Cardinality(WritesAt(c, fill[1], {445})) = 1
        /\ \E i \in WritesAt(c, fill[1], {445}), j \in WritesAt(c, fill[1], {388}) :
            c.writes[i].y = c.writes[j].y

\* The elevations at which the interior pass of c places a story floor or
\* ceiling: start, start+6+4k below start+height, start+height+1
StoryElevations(c) ==
    {c.start_level, c.start_level + c.building_height + 1}
    \cup {c.start_level + 6 + 4 * k :
            k \in {k \in 0..c.building_height : 6 + 4 * k < c.building_height}}

\* C12 as stated: no window block is written on a traced column at an
\* elevation where the interior pass places a story floor or ceiling; there
\* the column gets the wall or the corner block.
C12_AsStated ==
    \A c \in GenericCalls :
        \A i \in WritesOf(c, {377, 381, 383}) :
            c.writes[i].y \in StoryElevations(c) =>
                /\ c.writes[i].block # "WHITE_STAINED_GLASS"
                /\ c.writes[i].line \in {377, 383}

\* C13 as stated: on the traced columns that are not the corner, at one
\* elevation, two columns whose x+z differ by a multiple of 6 get the same
\* kind of block, and a window is only where x+z has residue 0, 1 or 2
\* modulo 6, negative coordinates included.
C13_AsStated ==
    \A c \in GenericCalls :
        /\ \A i, j \in WritesOf(c, {381, 383}) :
            (/\ c.writes[i].y = c.writes[j].y
             /\ ((c.writes[i].x + c.writes[i].z) - (c.writes[j].x + c.writes[j].z)) % 6 = 0)
            => c.writes[i].line = c.writes[j].line
        /\ \A i \in WritesOf(c, {381}) :
            (c.writes[i].x + c.writes[i].z) % 6 \in {0, 1, 2}

====
